---- MODULE Spec2Model ----
(***************************************************************************)
(* Model of flask_monitoringdashboard/database/__init__.py:                *)
(* the session_scope() context manager, the unique columns of the schema   *)
(* and the default of TelemetryUser.id.                                    *)
(*                                                                         *)
(* Each invocation of session_scope() is a process i \in Scopes that runs  *)
(* once.  Its with-block (the caller's code) adds rows to the session and  *)
(* either returns or raises.  The database is the set of committed rows.   *)
(* The ORM session is modelled by what the code relies on: add() makes a   *)
(* row pending, commit() writes the pending rows atomically or raises and  *)
(* writes nothing, rollback() discards the pending rows, close() releases  *)
(* the session.  rollback() and close() are taken not to raise.            *)
(*                                                                         *)
(* The steps of an invocation are the points where it gives up control:    *)
(* the yield (the with-block runs), and time.sleep() in the retry branch.  *)
(* What the generator does between two such points is one action; the      *)
(* order of the session operations inside it is kept in log.               *)
(***************************************************************************)
EXTENDS Integers, Sequences, FiniteSets, TLC

\* Number of session_scope() invocations that may overlap or follow each other.
NumScopes == 2
\* Largest number of rows all the with-blocks together add.
MaxRows == 2

Scopes == 1..NumScopes
\* Values of a unique column (Endpoint.name) that the with-blocks use.
Names == {"a", "b"}
\* Values uuid.uuid4() can return.
Uuids == {"u1", "u2"}

\* Tables of the schema that the model keeps rows of.
Tables == {"Endpoint", "TelemetryUser"}

\* Exception classes, by the branch of the try statement that decides them.
ExceptionKinds == {"OperationalError", "IntegrityError", "InternalError", "ValueError"}
BaseExceptionKinds == ExceptionKinds \cup {"KeyboardInterrupt"}

\* What the caller's with-block may raise.
BlockRaisable == {"OperationalError", "ValueError", "KeyboardInterrupt"}
\* What the database may make commit() raise, whatever the pending rows are.
CommitRaisable == {"OperationalError", "InternalError"}

VARIABLES
    pc,               \* pc[i]: position of invocation i in session_scope()
    session,          \* session[i]: the session object of invocation i (0: none yet)
    pending,          \* pending[s]: rows added to session s and not yet committed
    closed,           \* closed[s]: session s was closed
    db,               \* the committed rows, as every session sees them
    added,            \* added[i]: rows the with-block of i has added (history)
    log,              \* log[i]: session operations invocation i performed (history)
    blockExc,         \* blockExc[i]: exception the with-block of i raised
    exc,              \* exc[i]: exception in flight in i; at "done", what the caller gets
    telemetryDefault  \* value of str(uuid.uuid4()) computed when the class is defined

vars == <<pc, session, pending, closed, db, added, log, blockExc, exc,
          telemetryDefault>>

Sessions == 1..NumScopes

----------------------------------------------------------------------------
\* Schema

\* Column(..., unique=True) and primary keys supplied by the application.
NotUnique(table) == FALSE
UniqueColumn(table) == table \in {"Endpoint", "TelemetryUser"}

\* The default of TelemetryUser.id: str(uuid.uuid4()) is evaluated once, when
\* the class body runs, and the resulting string is the default of every row.
TelemetryUserIdDefault == telemetryDefault

\* Two rows that may not both be in the database.
Clash(r1, r2) ==
    /\ r1 # r2
    /\ r1.table = r2.table
    /\ UniqueColumn(r1.table)
    /\ r1.key = r2.key

\* The flush of `rows` into `database` violates a unique constraint.
UniqueViolation(rows, database) ==
    \E r1 \in rows : \E r2 \in rows \cup database : Clash(r1, r2)

----------------------------------------------------------------------------
\* Session operations

Op(name, res) == [op |-> name, res |-> res]

\* session.rollback(): pending objects are expunged from the session.
AfterRollback(rows) == {}

\* A successful session.commit(): the pending rows become part of the database.
CommitLoses(database, rows) == database
Persist(database, rows) == database \cup rows

\* scoped_session(DBSession)(): a new registry and so a new session per call.
SharedSession(i) == 1
NewSession(i) == i

\* The except clause of the try statement that takes an exception raised in
\* the try body (the with-block or the first commit).
HandlerNoRetry(kind) ==
    IF kind \in ExceptionKinds THEN "except_exception" ELSE "finally"
HandlerNoGeneric(kind) ==
    IF kind = "OperationalError" THEN "except_operational" ELSE "finally"
Handler(kind) ==
    IF kind = "OperationalError" THEN "except_operational"
    ELSE IF kind \in ExceptionKinds THEN "except_exception"
    ELSE "finally"

\* An exception raised inside an except clause is not taken by a sibling
\* clause: control goes to the finally clause and the exception propagates.
HandlerRaisesReentrant(kind) == Handler(kind)
HandlerRaises(kind) == "finally"


\* session.close(): the session is emptied and its transaction released.
AfterClose(rows) == {}

\* The ways session.commit() can end with `rows` pending: the database may
\* refuse it whatever the rows are; otherwise the flush either violates a
\* unique constraint or succeeds.
CommitOutcomes(rows, database) ==
    CommitRaisable \cup
        (IF UniqueViolation(rows, database) THEN {"IntegrityError"} ELSE {"ok"})

\* finally: session.close() runs however the try statement ended.
ClosesOnSuccessOnly(raised) == raised = "none"
FinallyCloses(raised) == TRUE

----------------------------------------------------------------------------
Init ==
    /\ pc = [i \in Scopes |-> "idle"]
    /\ session = [i \in Scopes |-> 0]
    /\ pending = [s \in Sessions |-> {}]
    /\ closed = [s \in Sessions |-> FALSE]
    /\ db = {}
    /\ added = [i \in Scopes |-> {}]
    /\ log = [i \in Scopes |-> <<>>]
    /\ blockExc = [i \in Scopes |-> "none"]
    /\ exc = [i \in Scopes |-> "none"]
    /\ telemetryDefault \in Uuids

\* session_obj = scoped_session(DBSession); session = session_obj(); yield session
Enter(i) ==
    /\ pc[i] = "idle"
    /\ session' = [session EXCEPT ![i] = NewSession(i)]
    /\ pc' = [pc EXCEPT ![i] = "block"]
    /\ UNCHANGED <<pending, closed, db, added, log, blockExc, exc, telemetryDefault>>

\* Number of rows the with-blocks have added so far.
RowsAdded == Cardinality(UNION {added[j] : j \in Scopes})

NewRow(i, table, key) ==
    [by |-> i, seq |-> Cardinality(added[i]) + 1, table |-> table, key |-> key]

\* with-block: session.add(row)
AddAutocommit(i, row) ==
    /\ pc[i] = "block"
    /\ RowsAdded < MaxRows
    /\ pending' = [pending EXCEPT ![session[i]] = @ \cup {row}]
    /\ db' = db \cup {row}
    /\ added' = [added EXCEPT ![i] = @ \cup {row}]
    /\ UNCHANGED <<pc, session, closed, log, blockExc, exc, telemetryDefault>>
Add(i, row) ==
    /\ pc[i] = "block"
    /\ RowsAdded < MaxRows
    /\ pending' = [pending EXCEPT ![session[i]] = @ \cup {row}]
    /\ added' = [added EXCEPT ![i] = @ \cup {row}]
    /\ UNCHANGED <<pc, session, closed, db, log, blockExc, exc, telemetryDefault>>

\* with-block: session.add(Endpoint(name=n))
AddEndpoint(i) ==
    \E n \in Names : Add(i, NewRow(i, "Endpoint", n))

\* with-block: session.add(TelemetryUser()), no id given
AddTelemetryUser(i) ==
    Add(i, NewRow(i, "TelemetryUser", TelemetryUserIdDefault))

\* The rest of the generator once the try body has ended: `raised` is the
\* exception the try body or the retry branch ended with ("none": none),
\* `branch` the clause that takes it, `l`, `rows` and `database` the log, the
\* pending rows and the database at that point.
Complete(i, branch, raised, l, rows, database) ==
    /\ db' = database
    /\ CASE branch = "except_operational" ->
            \* print(...); session.rollback(); time.sleep(0.5 + random.random())
            /\ pending' = [pending EXCEPT ![session[i]] = AfterRollback(rows)]
            /\ log' = [log EXCEPT ![i] = Append(l, Op("rollback", "ok"))]
            /\ exc' = [exc EXCEPT ![i] = "none"]
            /\ pc' = [pc EXCEPT ![i] = "sleep"]
            /\ UNCHANGED closed
         [] branch = "except_exception" ->
            \* session.rollback(); print(...); finally: session.close()
            /\ pending' = [pending EXCEPT ![session[i]] = AfterClose(AfterRollback(rows))]
            /\ log' = [log EXCEPT ![i] = l \o <<Op("rollback", "ok"), Op("close", "ok")>>]
            /\ closed' = [closed EXCEPT ![session[i]] = TRUE]
            /\ exc' = [exc EXCEPT ![i] = "none"]
            /\ pc' = [pc EXCEPT ![i] = "done"]
         [] OTHER ->
            \* finally: session.close(); an exception in flight propagates
            /\ pending' = [pending EXCEPT ![session[i]] =
                              IF FinallyCloses(raised) THEN AfterClose(rows) ELSE rows]
            /\ log' = [log EXCEPT ![i] =
                          IF FinallyCloses(raised) THEN Append(l, Op("close", "ok")) ELSE l]
            /\ closed' = [closed EXCEPT ![session[i]] = FinallyCloses(raised)]
            /\ exc' = [exc EXCEPT ![i] = raised]
            /\ pc' = [pc EXCEPT ![i] = "done"]

\* session.commit() at the end of the try body (retry = FALSE) or in the
\* retry branch (retry = TRUE), and what follows it.
Commit(i, retry) ==
    \E r \in CommitOutcomes(pending[session[i]], db) :
        LET l == Append(log[i], Op("commit", r)) IN
        IF r = "ok"
        THEN Complete(i, "finally", "none", l, {}, Persist(db, pending[session[i]]))
        ELSE Complete(i, IF retry THEN HandlerRaises(r) ELSE Handler(r), r, l,
                      pending[session[i]], db)

\* The with-block ends normally: the generator resumes after the yield and
\* runs session.commit() and what follows it.
BlockReturns(i) ==
    /\ pc[i] = "block"
    /\ Commit(i, FALSE)
    /\ UNCHANGED <<session, added, blockExc, telemetryDefault>>

\* The with-block raises: the exception is thrown into the generator at the
\* yield, and the first commit is skipped.
BlockRaises(i) ==
    /\ pc[i] = "block"
    /\ \E kind \in BlockRaisable :
        /\ blockExc' = [blockExc EXCEPT ![i] = kind]
        /\ Complete(i, Handler(kind), kind, log[i], pending[session[i]], db)
    /\ UNCHANGED <<session, added, telemetryDefault>>

\* except exc.OperationalError: ... time.sleep() returns; session.commit()
RetryCommit(i) ==
    /\ pc[i] = "sleep"
    /\ Commit(i, TRUE)
    /\ UNCHANGED <<session, added, blockExc, telemetryDefault>>

Next ==
    \E i \in Scopes :
        \/ Enter(i)
        \/ AddEndpoint(i)
        \/ AddTelemetryUser(i)
        \/ BlockReturns(i)
        \/ BlockRaises(i)
        \/ RetryCommit(i)

Spec == Init /\ [][Next]_vars

----------------------------------------------------------------------------
\* Vocabulary of the properties

TypeOK ==
    /\ pc \in [Scopes -> {"idle", "block", "sleep", "done"}]
    /\ session \in [Scopes -> Sessions \cup {0}]
    /\ closed \in [Sessions -> BOOLEAN]
    /\ blockExc \in [Scopes -> BlockRaisable \cup {"none"}]
    /\ exc \in [Scopes -> BaseExceptionKinds \cup {"none"}]
    /\ telemetryDefault \in Uuids
    /\ \A r \in db : r.table \in Tables

CommitOk == Op("commit", "ok")
RollbackOp == Op("rollback", "ok")
CloseOp == Op("close", "ok")

Count(l, name) == Cardinality({k \in 1..Len(l) : l[k].op = name})

\* The first commit of invocation i was attempted.
FirstCommitDone(i) == blockExc[i] = "none" /\ Len(log[i]) >= 1

\* The exception the try body of invocation i ended with ("none": none yet).
Trigger(i) ==
    IF blockExc[i] # "none" THEN blockExc[i]
    ELSE IF FirstCommitDone(i) /\ log[i][1].res # "ok" THEN log[i][1].res
    ELSE "none"

\* The session operations of invocation i after its try body.
AfterTry(i) == IF FirstCommitDone(i) THEN SubSeq(log[i], 2, Len(log[i])) ELSE log[i]

\* None of the rows the with-block of i added is in the database.
NoneCommitted(i) == added[i] \cap db = {}
AllCommitted(i) == added[i] \subseteq db

RowsOf(j, rows) == {r \in rows : r.by = j}

\* C1: when the with-block ends without raising and the commit succeeds,
\* commit was called once, rollback never, close once and after the commit,
\* and the rows the with-block added are in the database.
C1_NormalExit ==
    \A i \in Scopes :
        (FirstCommitDone(i) /\ log[i][1] = CommitOk) =>
            /\ pc[i] = "done"
            /\ log[i] = <<CommitOk, CloseOp>>
            /\ closed[session[i]]
            /\ exc[i] = "none"
            /\ AllCommitted(i)

C1_Witness ==
    \E i \in Scopes :
        /\ pc[i] = "done"
        /\ log[i] = <<CommitOk, CloseOp>>
        /\ added[i] # {}

\* C2: after an OperationalError in the with-block or the first commit the
\* session is rolled back and then commit is attempted exactly once more;
\* no invocation attempts more than two commits or rolls back more than once
\* on the retry path, and a commit that is not the first one directly
\* follows the rollback.
C2_RetryOnce ==
    \A i \in Scopes :
        /\ Count(log[i], "commit") <= 2
        /\ \A k \in 1..Len(log[i]) :
              (log[i][k].op = "commit" /\ ~(k = 1 /\ blockExc[i] = "none")) =>
                  /\ k > 1
                  /\ log[i][k - 1] = RollbackOp
                  /\ Trigger(i) = "OperationalError"
        /\ Trigger(i) = "OperationalError" =>
              /\ pc[i] \in {"sleep", "done"}
              /\ pc[i] = "sleep" => AfterTry(i) = <<RollbackOp>>
              /\ pc[i] = "done" =>
                    /\ Len(AfterTry(i)) = 3
                    /\ AfterTry(i)[1] = RollbackOp
                    /\ AfterTry(i)[2].op = "commit"
                    /\ AfterTry(i)[3] = CloseOp

C2_Witness ==
    \E i \in Scopes :
        /\ pc[i] = "done"
        /\ log[i] = <<Op("commit", "OperationalError"), RollbackOp, CommitOk, CloseOp>>

\* C3: when the first commit fails with an OperationalError and the retried
\* commit succeeds, the rows the with-block added are in the database.
C3_RetryPersists ==
    \A i \in Scopes :
        (/\ FirstCommitDone(i)
         /\ Len(log[i]) >= 3
         /\ log[i][1] = Op("commit", "OperationalError")
         /\ log[i][3] = CommitOk) => AllCommitted(i)

\* C4, as stated: when the with-block or the first commit raises anything
\* that is not an OperationalError, the session is rolled back, no commit
\* follows, the database has none of the with-block's rows and nothing
\* propagates to the caller.
C4_AnyExceptionSwallowed ==
    \A i \in Scopes :
        (Trigger(i) \in BaseExceptionKinds \ {"OperationalError"}) =>
            /\ pc[i] = "done"
            /\ AfterTry(i) = <<RollbackOp, CloseOp>>
            /\ exc[i] = "none"
            /\ NoneCommitted(i)

\* C4, amended: the same for what derives from Exception and is not an
\* OperationalError.
C4_ExceptionSwallowed ==
    \A i \in Scopes :
        (Trigger(i) \in ExceptionKinds \ {"OperationalError"}) =>
            /\ pc[i] = "done"
            /\ AfterTry(i) = <<RollbackOp, CloseOp>>
            /\ exc[i] = "none"
            /\ NoneCommitted(i)

C4_Witness ==
    \E i \in Scopes :
        /\ pc[i] = "done"
        /\ blockExc[i] = "ValueError"
        /\ added[i] # {}
        /\ log[i] = <<RollbackOp, CloseOp>>
        /\ exc[i] = "none"

\* C5: on every exit path the session is closed exactly once and close is
\* the last session operation.
C5_ClosedOnceLast ==
    \A i \in Scopes :
        /\ Count(log[i], "close") <= 1
        /\ \A k \in 1..Len(log[i]) : log[i][k] = CloseOp => k = Len(log[i])
        /\ pc[i] = "done" =>
              /\ Len(log[i]) >= 1
              /\ log[i][Len(log[i])] = CloseOp
              /\ closed[session[i]]
              /\ pending[session[i]] = {}
        /\ (pc[i] # "done" /\ session[i] # 0) => ~closed[session[i]]

C5_Witness ==
    \E i, j \in Scopes :
        /\ pc[i] = "done" /\ pc[j] = "done"
        /\ exc[i] \in CommitRaisable
        /\ Len(log[i]) >= 3
        /\ blockExc[j] = "KeyboardInterrupt"

\* C6: once an invocation has ended the database has all of the rows its
\* with-block added or none of them, and until the with-block has ended
\* none of them is in the database.
C6_Transactional ==
    \A i \in Scopes :
        /\ pc[i] = "done" => (AllCommitted(i) \/ NoneCommitted(i))
        /\ pc[i] \in {"block", "sleep"} => NoneCommitted(i)

C6_Witness ==
    \E i, j \in Scopes :
        /\ pc[i] = "done" /\ added[i] # {} /\ AllCommitted(i)
        /\ pc[j] = "block" /\ added[j] # {}

\* C7: no two TelemetryUser rows created without an explicit id were given
\* the same id, and no commit of such rows fails on a key conflict.
C7_DefaultIdsDiffer ==
    /\ \A r1, r2 \in UNION {added[i] : i \in Scopes} :
          (r1 # r2 /\ r1.table = "TelemetryUser" /\ r2.table = "TelemetryUser") =>
              r1.key # r2.key
    /\ \A i \in Scopes :
          (\A r \in added[i] : r.table = "TelemetryUser") =>
              \A k \in 1..Len(log[i]) : log[i][k].res # "IntegrityError"

\* C8: no two rows of the database share a value of a unique column, and an
\* invocation whose commit is refused for such a duplicate rolls back, does
\* not commit again, raises nothing and leaves the database without its rows.
C8_UniqueColumns ==
    /\ \A r1, r2 \in db :
          (r1 # r2 /\ r1.table = "Endpoint" /\ r2.table = "Endpoint") =>
              r1.key # r2.key
    /\ \A i \in Scopes :
          (FirstCommitDone(i) /\ log[i][1] = Op("commit", "IntegrityError")) =>
              /\ pc[i] = "done"
              /\ log[i] = <<Op("commit", "IntegrityError"), RollbackOp, CloseOp>>
              /\ exc[i] = "none"
              /\ NoneCommitted(i)

C8_Witness ==
    \E i \in Scopes :
        /\ log[i] = <<Op("commit", "IntegrityError"), RollbackOp, CloseOp>>
        /\ \E r1 \in added[i] : \E r2 \in db :
              r1.table = "Endpoint" /\ r2.table = "Endpoint" /\ r1.key = r2.key

\* C9: an exception raised by the retried commit propagates to the caller:
\* no rollback and no further commit follow it, the session is closed and
\* the database has none of the with-block's rows.
C9_RetryFailurePropagates ==
    \A i \in Scopes :
        \A k \in 2..Len(log[i]) :
            (/\ log[i][k - 1] = RollbackOp
             /\ log[i][k].op = "commit"
             /\ log[i][k].res # "ok") =>
                /\ pc[i] = "done"
                /\ exc[i] = log[i][k].res
                /\ Len(log[i]) = k + 1
                /\ log[i][k + 1] = CloseOp
                /\ closed[session[i]]
                /\ NoneCommitted(i)

C9_Witness ==
    \E i \in Scopes :
        /\ pc[i] = "done"
        /\ exc[i] = "InternalError"
        /\ log[i] = <<Op("commit", "OperationalError"), RollbackOp,
                      Op("commit", "InternalError"), CloseOp>>
        /\ added[i] # {}

\* C10: two invocations never have the same session, and a step of one
\* invocation leaves alone the pending rows, the committed rows and the
\* session of every other invocation.
C10_OwnSession ==
    [][/\ \A i, j \in Scopes :
            (i # j /\ session[i] # 0 /\ session[j] # 0) => session[i] # session[j]
       /\ \A j \in Scopes :
            (pc'[j] = pc[j] /\ added'[j] = added[j]) =>
                /\ RowsOf(j, db') = RowsOf(j, db)
                /\ \A s \in Sessions : RowsOf(j, pending'[s]) = RowsOf(j, pending[s])
                /\ session[j] # 0 => closed'[session[j]] = closed[session[j]]
                /\ log'[j] = log[j]]_vars

C10_Witness ==
    \E i, j \in Scopes :
        /\ i # j
        /\ pc[i] = "done" /\ added[i] # {} /\ AllCommitted(i)
        /\ pc[j] = "block" /\ pending[session[j]] # {}
        /\ ~closed[session[j]]

====
